---- MODULE Spec2Model ----
(***************************************************************************)
(* A state-machine model of libavdevice/gdigrab.c: the GDI screen grabber. *)
(* One capture session (struct gdigrab) is opened by gdigrab_read_header,  *)
(* read by gdigrab_read_packet and closed by gdigrab_read_close.  The      *)
(* operating system is modelled by the variable os (what the Win32 calls   *)
(* answer), the wall clock by now (what av_gettime returns), and the GDI   *)
(* handle table by handles.                                                *)
(*                                                                         *)
(* Arithmetic on double in the source (av_q2d, the delay computation) is   *)
(* modelled as exact rational arithmetic followed by the truncation toward *)
(* zero that the conversion to int64_t performs.                           *)
(***************************************************************************)
EXTENDS Integers, Sequences, FiniteSets, TLC

(***************************************************************************)
(* Bounds of the model.                                                    *)
(***************************************************************************)
\* The wall clock runs from 0 to MaxTime microseconds.
MaxTime == 13
\* The caller calls close at most MaxCloses times.
MaxCloses == 2

(***************************************************************************)
(* Program constants.                                                      *)
(***************************************************************************)
\* INT64_C(1000000): one tick in the units of time_frame
TickUnits == 1000000
\* sizeof(BITMAPFILEHEADER)
SizeofBITMAPFILEHEADER == 14
\* sizeof(BITMAPINFOHEADER)
SizeofBITMAPINFOHEADER == 40
\* sizeof(RGBQUAD)
SizeofRGBQUAD == 4
\* #define MY_MAX_MONITORS 4
MY_MAX_MONITORS == 4

(***************************************************************************)
(* C arithmetic.                                                           *)
(***************************************************************************)
\* C integer division and the double-to-integer conversion: both truncate
\* toward zero (b # 0).
CDiv(a, b) ==
    IF b > 0
    THEN IF a >= 0 THEN a \div b ELSE -((-a) \div b)
    ELSE IF a >= 0 THEN -(a \div (-b)) ELSE (-a) \div (-b)

\* 1 << n
RECURSIVE Shl1(_)
Shl1(n) == IF n <= 0 THEN 1 ELSE 2 * Shl1(n - 1)

Min(S) == CHOOSE x \in S : \A y \in S : x <= y

(***************************************************************************)
(* Rectangles (RECT) and the monitor table.                                *)
(***************************************************************************)
Rect(l, t, r, b) == [left |-> l, top |-> t, right |-> r, bottom |-> b]

EmptyRect == Rect(0, 0, 0, 0)

IsRectEmpty(r) == r.right <= r.left \/ r.bottom <= r.top

\* UnionRect(&dst, &a, &b): the bounding rectangle; an empty operand is ignored
UnionRect(a, b) ==
    IF IsRectEmpty(a) THEN (IF IsRectEmpty(b) THEN EmptyRect ELSE b)
    ELSE IF IsRectEmpty(b) THEN a
    ELSE Rect(IF a.left < b.left THEN a.left ELSE b.left,
              IF a.top < b.top THEN a.top ELSE b.top,
              IF a.right > b.right THEN a.right ELSE b.right,
              IF a.bottom > b.bottom THEN a.bottom ELSE b.bottom)

Res(x, y) == [x |-> x, y |-> y]

\* typedef struct tagMONITOR
Monitor(rect, logical, physical) ==
    [rect |-> rect, logical |-> logical, physical |-> physical]

\* static storage is zero-initialised
ZeroMonitor == Monitor(EmptyRect, Res(0, 0), Res(0, 0))

\* The state of the three statics after EnumDisplayMonitors has called
\* monitor_enum once per attached monitor, in the order of the sequence
\* attached, starting from SetRectEmpty(&rcCombined); monitorsNum = 0.
\* A write at an index beyond the table is recorded in oob and lands
\* outside the table.
RECURSIVE monitor_enum(_, _)
monitor_enum(reg, attached) ==
    IF attached = <<>> THEN reg
    ELSE LET m == Head(attached)
             i == reg.monitorsNum
         IN  monitor_enum(
               [monitors    |-> IF i < MY_MAX_MONITORS
                                THEN [reg.monitors EXCEPT ![i + 1] = m]
                                ELSE reg.monitors,
                monitorsNum |-> i + 1,
                rcCombined  |-> UnionRect(reg.rcCombined, m.rect),
                oob         |-> reg.oob \/ i >= MY_MAX_MONITORS],
               Tail(attached))

\* monitors[i]: an index outside the table reads whatever lies there (junk)
MonitorEntry(mons, i, junk) ==
    IF 0 <= i /\ i < MY_MAX_MONITORS THEN mons[i + 1] ELSE junk

get_monitor_id_by_logical_point(mons, num, x, y) ==
    LET hits == {i \in 0..(num - 1) :
                    /\ i < MY_MAX_MONITORS
                    /\ mons[i + 1].rect.left <= x /\ x < mons[i + 1].rect.right
                    /\ mons[i + 1].rect.top <= y /\ y < mons[i + 1].rect.bottom}
    IN  IF hits = {} THEN -1 ELSE Min(hits)

get_monitor_id_by_logical_rectangle(mons, num, rect) ==
    LET x == rect.left + CDiv(rect.right - rect.left, 2)
        y == rect.top + CDiv(rect.bottom - rect.top, 2)
    IN  get_monitor_id_by_logical_point(mons, num, x, y)

get_monitor_id_by_logical_x(mons, num, x) ==
    LET hits == {i \in 0..(num - 1) :
                    /\ i < MY_MAX_MONITORS
                    /\ mons[i + 1].rect.left <= x /\ x < mons[i + 1].rect.right}
    IN  IF hits = {} THEN -1 ELSE Min(hits)

get_monitor_id_by_logical_y(mons, num, y) ==
    LET hits == {i \in 0..(num - 1) :
                    /\ i < MY_MAX_MONITORS
                    /\ mons[i + 1].rect.top <= y /\ y < mons[i + 1].rect.bottom}
    IN  IF hits = {} THEN -1 ELSE Min(hits)

\* A variant of the x macro that scales the wrong way round
PHYSICAL_TO_LOGICAL_X(val, m) ==
    IF m.physical.x = 0 THEN 0 ELSE CDiv(val * m.logical.x, m.physical.x)

\* The macros; a zero logical resolution is an integer division by zero,
\* which the callers report in their divzero field; the value is 0 here.
LOGICAL_TO_PHYSICAL_X(val, m) ==
    IF m.logical.x = 0 THEN 0 ELSE CDiv(val * m.physical.x, m.logical.x)

LOGICAL_TO_PHYSICAL_Y(val, m) ==
    IF m.logical.y = 0 THEN 0 ELSE CDiv(val * m.physical.y, m.logical.y)

\* The result of convert_logical_rect_to_physical(&rect): the converted
\* rectangle, the four indices used, and whether a division by zero happened.
convert_logical_rect_to_physical(rect, mons, num, junk) ==
    LET ind1  == get_monitor_id_by_logical_point(mons, num, rect.left, rect.top)
        indX1 == IF ind1 >= 0 THEN ind1
                 ELSE get_monitor_id_by_logical_x(mons, num, rect.left)
        indY1 == IF ind1 >= 0 THEN ind1
                 ELSE get_monitor_id_by_logical_y(mons, num, rect.top)
        ind2  == get_monitor_id_by_logical_point(mons, num,
                                                 rect.right - 1, rect.bottom - 1)
        indX2 == IF ind2 >= 0 THEN ind2
                 ELSE get_monitor_id_by_logical_x(mons, num, rect.right - 1)
        indY2 == IF ind2 >= 0 THEN ind2
                 ELSE get_monitor_id_by_logical_y(mons, num, rect.bottom - 1)
        mX1 == MonitorEntry(mons, indX1, junk)
        mY1 == MonitorEntry(mons, indY1, junk)
        mX2 == MonitorEntry(mons, indX2, junk)
        mY2 == MonitorEntry(mons, indY2, junk)
    IN  [rect |-> Rect(LOGICAL_TO_PHYSICAL_X(rect.left, mX1),
                       LOGICAL_TO_PHYSICAL_Y(rect.top, mY1),
                       LOGICAL_TO_PHYSICAL_X(rect.right, mX2),
                       LOGICAL_TO_PHYSICAL_Y(rect.bottom, mY2)),
         inds |-> <<indX1, indY1, indX2, indY2>>,
         divzero |-> \/ mX1.logical.x = 0 \/ mY1.logical.y = 0
                     \/ mX2.logical.x = 0 \/ mY2.logical.y = 0]

\* The window branch of gdigrab_read_header: the client rectangle scaled by
\* the monitor under the centre of the window rectangle.
window_rect_to_physical(winRect, clientRect, mons, num, junk) ==
    LET ind == get_monitor_id_by_logical_rectangle(mons, num, winRect)
        m   == MonitorEntry(mons, ind, junk)
    IN  [rect |-> Rect(LOGICAL_TO_PHYSICAL_X(clientRect.left, m),
                       LOGICAL_TO_PHYSICAL_Y(clientRect.top, m),
                       LOGICAL_TO_PHYSICAL_X(clientRect.right, m),
                       LOGICAL_TO_PHYSICAL_Y(clientRect.bottom, m)),
         inds |-> <<ind, ind, ind, ind>>,
         divzero |-> m.logical.x = 0 \/ m.logical.y = 0]

(***************************************************************************)
(* GDI handles.  handles[k].acq counts the acquisitions of the handle of   *)
(* kind k and handles[k].rel the release or delete calls made on it;       *)
(* acqAt, relAt and relLast are the positions of its last acquisition, of  *)
(* its first release and of its last release among all the handle calls of *)
(* the session (0: none).                                                  *)
(***************************************************************************)
Kinds == {"source_hdc", "dest_hdc", "hbmp", "region_hwnd"}

NoHandles ==
    [k \in Kinds |-> [acq |-> 0, rel |-> 0, acqAt |-> 0, relAt |-> 0,
                      relLast |-> 0]]

\* The number of handle calls made so far
HandleCalls(hs) ==
    hs["source_hdc"].acq + hs["source_hdc"].rel +
    hs["dest_hdc"].acq + hs["dest_hdc"].rel +
    hs["hbmp"].acq + hs["hbmp"].rel +
    hs["region_hwnd"].acq + hs["region_hwnd"].rel

\* GetDC, CreateCompatibleDC, CreateDIBSection, CreateWindowEx
Acquire(hs, k) ==
    [hs EXCEPT ![k] = [acq |-> @.acq + 1, rel |-> @.rel,
                       acqAt |-> HandleCalls(hs) + 1, relAt |-> @.relAt,
                       relLast |-> @.relLast]]

\* ReleaseDC, DeleteDC, DeleteObject, DestroyWindow
Release(hs, k) ==
    [hs EXCEPT ![k] = [acq |-> @.acq, rel |-> @.rel + 1, acqAt |-> @.acqAt,
                       relAt |-> IF @.relAt = 0 THEN HandleCalls(hs) + 1
                                 ELSE @.relAt,
                       relLast |-> HandleCalls(hs) + 1]]

(***************************************************************************)
(* gdigrab_read_header, piece by piece.                                    *)
(***************************************************************************)
\* time_base = av_inv_q(framerate)
av_inv_q(q) == [num |-> q.den, den |-> q.num]

\* A variant that ignores the offsets of an explicit area
ClipRectAtOrigin(g, virtual_rect) ==
    IF g.width = 0 \/ g.height = 0
    THEN Rect(virtual_rect.left, virtual_rect.top,
              virtual_rect.right, virtual_rect.bottom)
    ELSE Rect(0, 0, g.width, g.height)

\* If no width or height set, use full screen/window area
ClipRect(g, virtual_rect) ==
    IF g.width = 0 \/ g.height = 0
    THEN Rect(virtual_rect.left, virtual_rect.top,
              virtual_rect.right, virtual_rect.bottom)
    ELSE Rect(g.offset_x, g.offset_y,
              g.width + g.offset_x, g.height + g.offset_y)

\* A variant that forgets the right and bottom edges
ExtendsOutsideTopLeftOnly(clip_rect, virtual_rect) ==
    \/ clip_rect.left < virtual_rect.left
    \/ clip_rect.top < virtual_rect.top

\* "Capture area ... extends outside window area"
ExtendsOutside(clip_rect, virtual_rect) ==
    \/ clip_rect.left < virtual_rect.left
    \/ clip_rect.top < virtual_rect.top
    \/ clip_rect.right > virtual_rect.right
    \/ clip_rect.bottom > virtual_rect.bottom

\* "Invalid properties, aborting"
InvalidProperties(clip_rect, bpp) ==
    \/ clip_rect.right - clip_rect.left <= 0
    \/ clip_rect.bottom - clip_rect.top <= 0
    \/ bpp % 8 # 0

\* A variant that describes a bottom-up bitmap (positive height)
BitmapInfoBottomUp(clip_rect, bpp) ==
    [biSize        |-> SizeofBITMAPINFOHEADER,
     biWidth       |-> clip_rect.right - clip_rect.left,
     biHeight      |-> clip_rect.bottom - clip_rect.top,
     biPlanes      |-> 1,
     biBitCount    |-> bpp,
     biCompression |-> "BI_RGB"]

\* bmi.bmiHeader as filled before CreateDIBSection (BI_RGB = 0)
BitmapInfo(clip_rect, bpp) ==
    [biSize        |-> SizeofBITMAPINFOHEADER,
     biWidth       |-> clip_rect.right - clip_rect.left,
     biHeight      |-> -(clip_rect.bottom - clip_rect.top),
     biPlanes      |-> 1,
     biBitCount    |-> bpp,
     biCompression |-> "BI_RGB"]

\* GetObject(hbmp, ...) on the DIB section: rows are padded to 32 bits,
\* bmHeight is the absolute height, bmPlanes is 1;
\* frame_size = bmp.bmWidthBytes * bmp.bmHeight * bmp.bmPlanes
FrameSize(bmi) ==
    LET bmWidthBytes == ((bmi.biWidth * bmi.biBitCount + 31) \div 32) * 4
        bmHeight     == IF bmi.biHeight < 0 THEN -bmi.biHeight ELSE bmi.biHeight
        bmPlanes     == 1
    IN  bmWidthBytes * bmHeight * bmPlanes

\* A variant whose palette test is bpp < 8
HeaderSizeNoPaletteAt8(bpp) ==
    SizeofBITMAPFILEHEADER + SizeofBITMAPINFOHEADER +
    (IF bpp < 8 THEN Shl1(bpp) ELSE 0) * SizeofRGBQUAD

\* header_size = sizeof(BITMAPFILEHEADER) + sizeof(BITMAPINFOHEADER) +
\*               (bpp <= 8 ? (1 << bpp) : 0) * sizeof(RGBQUAD)
HeaderSize(bpp) ==
    SizeofBITMAPFILEHEADER + SizeofBITMAPINFOHEADER +
    (IF bpp <= 8 THEN Shl1(bpp) ELSE 0) * SizeofRGBQUAD

\* A variant that makes the first frame due at the time of the open
InitialTimeFrameDueAtOpen(t, time_base) ==
    CDiv(t * time_base.den, time_base.num) - TickUnits

\* time_frame = av_gettime() / av_q2d(time_base), converted to int64_t
InitialTimeFrame(t, time_base) == CDiv(t * time_base.den, time_base.num)

\* The error: label of gdigrab_read_header, on the locals source_hdc,
\* dest_hdc and hbmp (TRUE: not NULL).
HeaderErrorPath(hs, source_hdc, dest_hdc, hbmp) ==
    LET h1 == IF source_hdc THEN Release(hs, "source_hdc") ELSE hs
        h2 == IF dest_hdc THEN Release(h1, "dest_hdc") ELSE h1
        h3 == IF hbmp THEN Release(h2, "hbmp") ELSE h2
    IN  IF source_hdc THEN Release(h3, "source_hdc") ELSE h3

\* gdigrab_region_wnd_init: the handle table after it, and whether it failed.
\* The window is created, and destroyed again when SetWindowRgn fails.
gdigrab_region_wnd_init(hs, fail) ==
    IF fail = "CreateWindowEx" THEN [failed |-> TRUE, handles |-> hs]
    ELSE IF fail = "SetWindowRgn"
         THEN [failed |-> TRUE,
               handles |-> Release(Acquire(hs, "region_hwnd"), "region_hwnd")]
         ELSE [failed |-> FALSE, handles |-> Acquire(hs, "region_hwnd")]

\* Handle-typed fields of struct gdigrab hold "NULL" or a handle.
NULL == "NULL"

\* What gdigrab_read_header leaves behind: the return value, the context,
\* the handle table, the statics, the local virtual_rect, whether the
\* call died in an integer division by zero, the number of warnings logged
\* and whether the call failed in gdigrab_region_wnd_init (at).
HeaderResult(r, g, hs, reg, virtual_rect, crashed) ==
    [ret |-> r, gdigrab |-> g, handles |-> hs, reg |-> reg,
     virtual_rect |-> virtual_rect, crashed |-> crashed, warned |-> 0,
     at |-> "other"]

\* gdigrab_read_header from "if (gdigrab->show_region)" to "return 0"
header_region(g2, fail, hs3, reg2, virtual_rect) ==
    IF g2.show_region # 0
    THEN LET wnd == gdigrab_region_wnd_init(hs3, fail)
         IN  IF wnd.failed
             THEN [HeaderResult("EIO", g2,
                                HeaderErrorPath(wnd.handles, TRUE, TRUE, TRUE),
                                reg2, virtual_rect, FALSE)
                   EXCEPT !.at = "gdigrab_region_wnd_init"]
             ELSE HeaderResult("OK", [g2 EXCEPT !.region_hwnd = "h"],
                               wnd.handles, reg2, virtual_rect, FALSE)
    ELSE HeaderResult("OK", g2, hs3, reg2, virtual_rect, FALSE)

\* A variant that leaves cursor_error_printed as it finds it
header_context_keeps_flag(g1, hwnd, bpp, t, bmi, clip_rect) ==
    [g1 EXCEPT !.frame_size  = FrameSize(bmi),
               !.header_size = HeaderSize(bpp),
               !.time_base   = av_inv_q(g1.framerate),
               !.time_frame  = InitialTimeFrame(t, av_inv_q(g1.framerate)),
               !.hwnd        = hwnd,
               !.source_hdc  = "h",
               !.dest_hdc    = "h",
               !.hbmp        = "h",
               !.bmi         = bmi,
               !.clip_rect   = clip_rect]

\* gdigrab_read_header from GetObject to "gdigrab->cursor_error_printed = 0"
header_context(g1, hwnd, bpp, t, bmi, clip_rect) ==
    [g1 EXCEPT !.frame_size  = FrameSize(bmi),
               !.header_size = HeaderSize(bpp),
               !.time_base   = av_inv_q(g1.framerate),
               !.time_frame  = InitialTimeFrame(t, av_inv_q(g1.framerate)),
               !.hwnd        = hwnd,
               !.source_hdc  = "h",
               !.dest_hdc    = "h",
               !.hbmp        = "h",
               !.bmi         = bmi,
               !.clip_rect   = clip_rect,
               !.cursor_error_printed = 0]

\* gdigrab_read_header from CreateCompatibleDC to avformat_new_stream
header_surfaces(g1, hwnd, bpp, fail, t, hs1, reg2, virtual_rect, clip_rect) ==
    IF fail = "CreateCompatibleDC"
    THEN HeaderResult("EIO", g1, HeaderErrorPath(hs1, TRUE, FALSE, FALSE),
                      reg2, virtual_rect, FALSE)
    ELSE IF fail = "CreateDIBSection"
    THEN HeaderResult("EIO", g1,
                      HeaderErrorPath(Acquire(hs1, "dest_hdc"), TRUE, TRUE, FALSE),
                      reg2, virtual_rect, FALSE)
    ELSE IF fail = "SelectObject"
    THEN HeaderResult("EIO", g1,
                      HeaderErrorPath(Acquire(Acquire(hs1, "dest_hdc"), "hbmp"),
                                      TRUE, TRUE, TRUE),
                      reg2, virtual_rect, FALSE)
    ELSE IF fail = "avformat_new_stream"
    THEN HeaderResult("ENOMEM", g1,
                      HeaderErrorPath(Acquire(Acquire(hs1, "dest_hdc"), "hbmp"),
                                      TRUE, TRUE, TRUE),
                      reg2, virtual_rect, FALSE)
    ELSE header_region(header_context(g1, hwnd, bpp, t,
                                      BitmapInfo(clip_rect, bpp), clip_rect),
                       fail, Acquire(Acquire(hs1, "dest_hdc"), "hbmp"),
                       reg2, virtual_rect)

\* gdigrab_read_header from the clip rectangle to the two checks of it
header_checks(g1, hwnd, bpp, fail, t, hs1, reg2, virtual_rect, clip_rect) ==
    IF ExtendsOutside(clip_rect, virtual_rect)
    THEN HeaderResult("EIO", g1, HeaderErrorPath(hs1, TRUE, FALSE, FALSE),
                      reg2, virtual_rect, FALSE)
    ELSE IF InvalidProperties(clip_rect, bpp)
    THEN HeaderResult("EIO", g1, HeaderErrorPath(hs1, TRUE, FALSE, FALSE),
                      reg2, virtual_rect, FALSE)
    ELSE header_surfaces(g1, hwnd, bpp, fail, t, hs1, reg2, virtual_rect,
                         clip_rect)

\* An index of conv outside the monitor table is an out-of-bounds read
UsesOutside(conv) ==
    \E k \in 1..4 : conv.inds[k] < 0 \/ conv.inds[k] >= MY_MAX_MONITORS

\* gdigrab_read_header once virtual_rect has been converted (conv)
header_area(g1, hwnd, bpp, fail, t, hs1, reg1, conv) ==
    IF conv.divzero
    THEN HeaderResult("EIO", g1, hs1, [reg1 EXCEPT !.oob = @ \/ UsesOutside(conv)],
                      conv.rect, TRUE)
    ELSE header_checks(g1, hwnd, bpp, fail, t, hs1,
                       [reg1 EXCEPT !.oob = @ \/ UsesOutside(conv)],
                       conv.rect, ClipRect(g1, conv.rect))

\* The virtual rectangle of the target in physical pixels
VirtualRect(hwnd, o, reg1, junk) ==
    IF hwnd # NULL
    THEN window_rect_to_physical(o.winRect, o.clientRect,
                                 reg1.monitors, reg1.monitorsNum, junk)
    ELSE convert_logical_rect_to_physical(
             Rect(o.vscreen.x, o.vscreen.y,
                  o.vscreen.x + o.vscreen.cx, o.vscreen.y + o.vscreen.cy),
             reg1.monitors, reg1.monitorsNum, junk)

\* SetRectEmpty(&rcCombined); monitorsNum = 0; EnumDisplayMonitors(...)
EnumDisplayMonitors(reg0, attached) ==
    monitor_enum([monitors |-> reg0.monitors, monitorsNum |-> 0,
                  rcCombined |-> EmptyRect, oob |-> reg0.oob], attached)

\* gdigrab_read_header from GetDC on
header_source(g1, hwnd, o, fail, junk, t, hs0, reg0) ==
    IF fail = "GetDC"
    THEN HeaderResult("EIO", g1, hs0, reg0, EmptyRect, FALSE)
    ELSE LET reg1 == EnumDisplayMonitors(reg0, o.attached)
         IN  header_area(g1, hwnd, o.bpp, fail, t, Acquire(hs0, "source_hdc"),
                         reg1, VirtualRect(hwnd, o, reg1, junk))

\* A variant that keeps show_region when the target is a window
read_header_keeps_region(g0, u, o, fail, junk, t, hs0, reg0) ==
    IF u.scheme = "title"
    THEN IF u.name \in o.titles
         THEN header_source(g0, "wnd", o, fail, junk, t, hs0, reg0)
         ELSE HeaderResult("EIO", g0, hs0, reg0, EmptyRect, FALSE)
    ELSE IF u.scheme = "desktop"
    THEN header_source(g0, NULL, o, fail, junk, t, hs0, reg0)
    ELSE HeaderResult("EIO", g0, hs0, reg0, EmptyRect, FALSE)

\* gdigrab_read_header(s1) as a function of the context g0 (zeroed, options
\* set), the target u (s1->url), what the system answers (o, the call fail
\* that fails, the bytes junk that an out-of-table monitors[] index reads,
\* the time t of av_gettime()), the handle table hs0 and the statics reg0.
read_header(g0, u, o, fail, junk, t, hs0, reg0) ==
    IF u.scheme = "title"
    THEN IF u.name \in o.titles
         THEN IF g0.show_region # 0
              THEN [header_source([g0 EXCEPT !.show_region = 0],
                                  "wnd", o, fail, junk, t, hs0, reg0)
                    EXCEPT !.warned = 1]
              ELSE header_source(g0, "wnd", o, fail, junk, t, hs0, reg0)
         ELSE HeaderResult("EIO", g0, hs0, reg0, EmptyRect, FALSE)
    ELSE IF u.scheme = "desktop"
    THEN header_source(g0, NULL, o, fail, junk, t, hs0, reg0)
    ELSE HeaderResult("EIO", g0, hs0, reg0, EmptyRect, FALSE)

(***************************************************************************)
(* gdigrab_read_packet, piece by piece.                                    *)
(***************************************************************************)
\* A variant that does not add the tick
NextFrameSame(time_frame) == time_frame

\* Calculate the time of the next frame: time_frame += INT64_C(1000000)
NextFrame(time_frame) == time_frame + TickUnits

\* curtime = av_gettime()
av_gettime(clock) == clock

\* delay = time_frame * av_q2d(time_base) - curtime, converted to int64_t
Delay(time_frame, time_base, curtime) ==
    CDiv(time_frame * time_base.num - curtime * time_base.den, time_base.den)

\* A variant that compares with <=
OvershotOrEqual(delay, time_base) ==
    delay * time_base.den <= (-TickUnits) * time_base.num

\* delay < INT64_C(-1000000) * av_q2d(time_base)
Overshot(delay, time_base) ==
    delay * time_base.den < (-TickUnits) * time_base.num

\* The local time_frame when the pacing loop breaks with this delay
BreakTimeFrame(time_frame, delay, time_base) ==
    IF Overshot(delay, time_base) THEN time_frame + TickUnits ELSE time_frame

\* int file_size = gdigrab->header_size + gdigrab->frame_size
FileSize(g) == g.header_size + g.frame_size

\* A variant that stamps the packet with the time its frame was due
PacketPtsDue(curtime, delay, time_frame) == curtime + delay

\* A variant that means the due time but has the sign of delay wrong
PacketPtsMinusDelay(curtime, delay, time_frame) == curtime - delay

\* pkt->pts = curtime
PacketPts(curtime, delay, time_frame) == curtime

\* A variant that works on gdigrab->time_frame itself, not on a local
StoredAlways(g, time_frame, code) == time_frame

\* What gdigrab->time_frame holds when the call returns: the local
\* time_frame is stored only at the end of a successful read.
StoredTimeFrame(g, time_frame, code) ==
    IF code = "OK" THEN time_frame ELSE g.time_frame

\* The value gdigrab_read_packet returns with a packet
ReadReturn(g) == g.header_size + g.frame_size

\* gdigrab_region_wnd_update: PeekMessage/DispatchMessage until the queue of
\* gdigrab->region_hwnd is empty.  The result is the window whose queue was
\* drained.
gdigrab_region_wnd_update(g) == g.region_hwnd

\* The window whose queue this call of gdigrab_read_packet drains, if any
PumpedWindow(g) ==
    IF g.show_region # 0 THEN gdigrab_region_wnd_update(g) ELSE "none"

\* What paint_mouse_pointer works on: the context, the number of cursor
\* errors logged, the number of live cursor copies and icon bitmaps, and
\* whether and where DrawIcon has drawn onto the back buffer.
Overlay(g, logs, live) ==
    [gdigrab |-> g, logs |-> logs, live |-> live,
     drawn |-> FALSE, x |-> 0, y |-> 0]

\* The macro CURSOR_ERROR(str)
CURSOR_ERROR(s) ==
    IF s.gdigrab.cursor_error_printed = 0
    THEN [s EXCEPT !.logs = @ + 1, !.gdigrab.cursor_error_printed = 1]
    ELSE s

\* pos as paint_mouse_pointer computes it from ci.ptScreenPos (c.x, c.y),
\* the hotspot (c.hot), the window rectangle and the device capabilities.
CursorPos(g, o, c) ==
    IF g.hwnd # NULL
    THEN [x |-> CDiv((c.x - g.clip_rect.left - c.hot - o.winRect.left)
                     * o.caps.desktophorzres, o.caps.horzres),
          y |-> CDiv((c.y - g.clip_rect.top - c.hot - o.winRect.top)
                     * o.caps.desktopvertres, o.caps.vertres)]
    ELSE [x |-> CDiv(c.x * o.caps.desktophorzres, o.caps.horzres)
                - g.clip_rect.left - c.hot,
          y |-> CDiv(c.y * o.caps.desktopvertres, o.caps.vertres)
                - g.clip_rect.top - c.hot]

\* A variant of the test below with strict upper bounds
CursorInFrameStrict(pos, clip_rect) ==
    /\ pos.x >= 0 /\ pos.x < clip_rect.right - clip_rect.left
    /\ pos.y >= 0 /\ pos.y < clip_rect.bottom - clip_rect.top

\* pos.x >= 0 && pos.x <= clip_rect.right - clip_rect.left &&
\* pos.y >= 0 && pos.y <= clip_rect.bottom - clip_rect.top
CursorInFrame(pos, clip_rect) ==
    /\ pos.x >= 0 /\ pos.x <= clip_rect.right - clip_rect.left
    /\ pos.y >= 0 /\ pos.y <= clip_rect.bottom - clip_rect.top

\* paint_mouse_pointer from "if (hwnd)" to icon_error: the icon and the
\* bitmaps of GetIconInfo are released on each of these paths.
paint_at(s, o, c) ==
    IF s.gdigrab.hwnd # NULL /\ ~c.rect_ok
    THEN CURSOR_ERROR(s)
    ELSE IF CursorInFrame(CursorPos(s.gdigrab, o, c), s.gdigrab.clip_rect)
    THEN IF c.draw_ok
         THEN [s EXCEPT !.drawn = TRUE,
                        !.x = CursorPos(s.gdigrab, o, c).x,
                        !.y = CursorPos(s.gdigrab, o, c).y]
         ELSE CURSOR_ERROR(s)
    ELSE s

\* A variant that does not test ci.flags
paint_mouse_pointer_any_flags(g, o, c, logs, live) ==
    IF ~c.info_ok THEN CURSOR_ERROR(Overlay(g, logs, live))
    ELSE IF ~c.icon_ok THEN CURSOR_ERROR(Overlay(g, logs, live))
    ELSE paint_at(Overlay(g, logs, live), o, c)

\* paint_mouse_pointer(s1, gdigrab) when the system answers c: whether
\* GetCursorInfo, CopyCursor(ci.hCursor), GetIconInfo, GetWindowRect and
\* DrawIcon succeed, whether ci.flags is CURSOR_SHOWING, and the position.
\* With the pointer hidden the function returns holding the copy it made.
paint_mouse_pointer(g, o, c, logs, live) ==
    IF ~c.info_ok THEN CURSOR_ERROR(Overlay(g, logs, live))
    ELSE IF ~c.showing
    THEN Overlay(g, logs, live + (IF c.copy_ok THEN 1 ELSE 0))
    ELSE IF ~c.icon_ok THEN CURSOR_ERROR(Overlay(g, logs, live))
    ELSE paint_at(Overlay(g, logs, live), o, c)

\* The packet data as gdigrab_read_packet writes it: the file header, the
\* bitmap-info header, the number of palette entries, the screen area the
\* pixels show and the cursor drawn over them.
PacketData(g, s) ==
    [bfType |-> "BM", bfSize |-> FileSize(g), bfReserved1 |-> 0,
     bfReserved2 |-> 0, bfOffBits |-> g.header_size,
     bmiHeader |-> g.bmi,
     colors |-> IF g.bmi.biBitCount <= 8 THEN Shl1(g.bmi.biBitCount) ELSE 0,
     pixels |-> g.clip_rect,
     cursor |-> IF s.drawn THEN <<s.x, s.y>> ELSE <<>>]

(***************************************************************************)
(* gdigrab_read_close.                                                     *)
(***************************************************************************)
\* gdigrab_region_wnd_destroy
gdigrab_region_wnd_destroy(g, hs) ==
    [gdigrab |-> [g EXCEPT !.region_hwnd = NULL],
     handles |-> IF g.region_hwnd # NULL THEN Release(hs, "region_hwnd") ELSE hs]

\* A variant that deletes the bitmap before the destination DC
read_close_bitmap_first(g, hs) ==
    LET d  == IF g.show_region # 0 THEN gdigrab_region_wnd_destroy(g, hs)
              ELSE [gdigrab |-> g, handles |-> hs]
        h1 == IF g.source_hdc # NULL
              THEN Release(d.handles, "source_hdc") ELSE d.handles
        h2 == IF g.hbmp # NULL THEN Release(h1, "hbmp") ELSE h1
        h3 == IF g.dest_hdc # NULL THEN Release(h2, "dest_hdc") ELSE h2
        h4 == IF g.source_hdc # NULL THEN Release(h3, "source_hdc") ELSE h3
    IN  [gdigrab |-> d.gdigrab, handles |-> h4]

\* The context and the handle table after gdigrab_read_close(s1)
read_close(g, hs) ==
    LET d  == IF g.show_region # 0 THEN gdigrab_region_wnd_destroy(g, hs)
              ELSE [gdigrab |-> g, handles |-> hs]
        h1 == IF g.source_hdc # NULL
              THEN Release(d.handles, "source_hdc") ELSE d.handles
        h2 == IF g.dest_hdc # NULL THEN Release(h1, "dest_hdc") ELSE h1
        h3 == IF g.hbmp # NULL THEN Release(h2, "hbmp") ELSE h2
        h4 == IF g.source_hdc # NULL THEN Release(h3, "source_hdc") ELSE h3
    IN  [gdigrab |-> d.gdigrab, handles |-> h4]

(***************************************************************************)
(* The inputs of the model: options, targets and systems.                  *)
(***************************************************************************)
\* A session is opened no later than MaxOpenTime.
MaxOpenTime == 2
\* The clock's end for the sessions that vary the target, the system or the
\* capture area rather than the frame rate.
ShortTime == 5
\* The clock's end for the sessions that vary what the cursor overlay meets.
CursorTime == 8
\* The caller opens at most MaxSessions sessions on one context.
MaxSessions == 2

Rational(n, d) == [num |-> n, den |-> d]

\* The frame rates tried: one tick is 4 us, 3 1/3 us, 3 us, so that a few
\* microseconds of the clock hold several ticks, whole and fractional.
Framerates == {Rational(250000, 1), Rational(300000, 1), Rational(1000000, 3)}

\* The frame rate of the sessions that vary something else
DefaultFramerate == Rational(250000, 1)

Area(w, h, x, y) == [width |-> w, height |-> h, offset_x |-> x, offset_y |-> y]

\* video_size unset (with and without offsets), inside the screen, the full
\* screen, beyond the right edge, left of the left edge
Areas == {Area(0, 0, 0, 0), Area(0, 0, 10, 20), Area(100, 50, 10, 20),
          Area(800, 600, 0, 0), Area(100, 50, 750, 20), Area(100, 50, -5, 0)}

DefaultArea == Area(100, 50, 10, 20)

Url(scheme, name) == [scheme |-> scheme, name |-> name]

Urls == {Url("desktop", ""), Url("title", "Editor"), Url("title", "Missing"),
         Url("other", "")}

DesktopUrl == Url("desktop", "")

\* GetDeviceCaps(source_hdc, HORZRES / VERTRES / DESKTOPHORZRES /
\* DESKTOPVERTRES)
Caps(horzres, vertres, desktophorzres, desktopvertres) ==
    [horzres |-> horzres, vertres |-> vertres,
     desktophorzres |-> desktophorzres, desktopvertres |-> desktopvertres]

System(attached, vscreen, winRect, clientRect, bpp, caps) ==
    [attached |-> attached, vscreen |-> vscreen, titles |-> {"Editor"},
     winRect |-> winRect, clientRect |-> clientRect, bpp |-> bpp,
     caps |-> caps]

VScreen(x, y, cx, cy) == [x |-> x, y |-> y, cx |-> cx, cy |-> cy]

\* One 800x600 monitor at 100 %, 32 bits per pixel
System1 ==
    System(<<Monitor(Rect(0, 0, 800, 600), Res(800, 600), Res(800, 600))>>,
           VScreen(0, 0, 800, 600),
           Rect(100, 100, 300, 200), Rect(0, 0, 200, 100), 32,
           Caps(800, 600, 800, 600))

\* One monitor of 400x300 logical and 800x600 physical pixels, 8 bits per pixel
System2 ==
    System(<<Monitor(Rect(0, 0, 400, 300), Res(400, 300), Res(800, 600))>>,
           VScreen(0, 0, 400, 300),
           Rect(100, 100, 300, 200), Rect(0, 0, 200, 100), 8,
           Caps(400, 300, 800, 600))

\* Two monitors side by side, the left at 200 %, the right at 100 %
System3 ==
    System(<<Monitor(Rect(0, 0, 400, 300), Res(400, 300), Res(800, 600)),
             Monitor(Rect(400, 0, 800, 300), Res(400, 300), Res(400, 300))>>,
           VScreen(0, 0, 800, 300),
           Rect(500, 100, 700, 200), Rect(0, 0, 200, 100), 24,
           Caps(400, 300, 800, 600))

\* The enumeration reports no monitor
System4 ==
    System(<<>>, VScreen(0, 0, 800, 600),
           Rect(100, 100, 300, 200), Rect(0, 0, 200, 100), 32,
           Caps(800, 600, 800, 600))

\* 16 colours: 4 bits per pixel
System5 ==
    System(<<Monitor(Rect(0, 0, 800, 600), Res(800, 600), Res(800, 600))>>,
           VScreen(0, 0, 800, 600),
           Rect(100, 100, 300, 200), Rect(0, 0, 200, 100), 4,
           Caps(800, 600, 800, 600))

\* The window is minimised: it lies off every monitor, its client area is empty
System6 ==
    System(<<Monitor(Rect(0, 0, 800, 600), Res(800, 600), Res(800, 600))>>,
           VScreen(0, 0, 800, 600),
           Rect(-32000, -32000, -31840, -31972), Rect(0, 0, 0, 0), 32,
           Caps(800, 600, 800, 600))

Systems == {System1, System2, System3, System4, System5, System6}

\* What an index outside the monitor table may read
JunkMonitors == {ZeroMonitor, Monitor(EmptyRect, Res(1, 1), Res(3, 3))}

\* The call of gdigrab_read_header that fails, if any
FailSteps == {"none", "GetDC", "CreateCompatibleDC", "CreateDIBSection",
              "SelectObject", "avformat_new_stream", "CreateWindowEx",
              "SetWindowRgn"}

\* The call of gdigrab_read_packet that fails, if any
ReadFailures == {"none", "av_new_packet", "BitBlt"}

\* What the system answers to one call of paint_mouse_pointer
CursorEvent(info_ok, showing, copy_ok, icon_ok, rect_ok, draw_ok, x, y, hot) ==
    [info_ok |-> info_ok, showing |-> showing, copy_ok |-> copy_ok,
     icon_ok |-> icon_ok, rect_ok |-> rect_ok, draw_ok |-> draw_ok,
     x |-> x, y |-> y, hot |-> hot]

\* The pointer showing at (x, y) with every call succeeding
PointerAt(x, y) == CursorEvent(TRUE, TRUE, TRUE, TRUE, TRUE, TRUE, x, y, 0)

\* The answers tried for a session: each call failing in turn, the pointer
\* hidden, and the pointer showing inside the captured area, on its right
\* and bottom edges, beyond it, before it, and with a hotspot that moves
\* the icon's corner before it.  bx, by is the screen position that the
\* capture area's corner has at 100 %.
CursorEvents(g, o) ==
    LET bx == g.clip_rect.left + (IF g.hwnd # NULL THEN o.winRect.left ELSE 0)
        by == g.clip_rect.top + (IF g.hwnd # NULL THEN o.winRect.top ELSE 0)
        w  == g.clip_rect.right - g.clip_rect.left
        h  == g.clip_rect.bottom - g.clip_rect.top
    IN  { CursorEvent(FALSE, TRUE, TRUE, TRUE, TRUE, TRUE, bx + 5, by + 5, 0),
          CursorEvent(TRUE, FALSE, TRUE, TRUE, TRUE, TRUE, bx + 5, by + 5, 0),
          CursorEvent(TRUE, FALSE, FALSE, TRUE, TRUE, TRUE, bx + 5, by + 5, 0),
          CursorEvent(TRUE, TRUE, TRUE, FALSE, TRUE, TRUE, bx + 5, by + 5, 0),
          CursorEvent(TRUE, TRUE, TRUE, TRUE, FALSE, TRUE, bx + 5, by + 5, 0),
          CursorEvent(TRUE, TRUE, TRUE, TRUE, TRUE, FALSE, bx + 5, by + 5, 0),
          CursorEvent(TRUE, TRUE, FALSE, TRUE, TRUE, TRUE, bx + 5, by + 5, 0),
          CursorEvent(TRUE, TRUE, TRUE, TRUE, TRUE, TRUE, bx + 5, by + 5, 6),
          PointerAt(bx + 5, by + 5), PointerAt(bx + w, by + 5),
          PointerAt(bx + 5, by + h), PointerAt(bx + w + 7, by + 5),
          PointerAt(bx - 3, by + 5) }

\* No call of paint_mouse_pointer yet
NoCursorEvent == CursorEvent(FALSE, FALSE, FALSE, FALSE, FALSE, FALSE, 0, 0, 0)

ZeroRational == Rational(0, 0)

\* priv_data as avformat allocates it (zeroed) with the private options set
Context(draw_mouse, show_region, framerate, area) ==
    [frame_size  |-> 0, header_size |-> 0,
     time_base   |-> ZeroRational, time_frame |-> 0,
     draw_mouse  |-> draw_mouse, show_region |-> show_region,
     framerate   |-> framerate,
     width       |-> area.width, height |-> area.height,
     offset_x    |-> area.offset_x, offset_y |-> area.offset_y,
     hwnd        |-> NULL, source_hdc |-> NULL, dest_hdc |-> NULL,
     bmi         |-> BitmapInfo(EmptyRect, 0), hbmp |-> NULL,
     clip_rect   |-> EmptyRect, region_hwnd |-> NULL,
     cursor_error_printed |-> 0]

(***************************************************************************)
(* The state.                                                              *)
(***************************************************************************)
VARIABLES
    now,          \* the wall clock in microseconds: what av_gettime() returns
    url,          \* s1->url
    os,           \* the system: monitors, windows, colour depth
    gdigrab,      \* struct gdigrab, s1->priv_data
    monitors,     \* static MONITOR monitors[MY_MAX_MONITORS]
    monitorsNum,  \* static int monitorsNum
    rcCombined,   \* static RECT rcCombined
    oob,          \* an index outside monitors[] has been used
    handles,      \* the acquisitions and releases of each GDI handle
    phase,        \* "init", "open", "failed", "closed" or "crashed"
    pc,           \* "idle", or "av_usleep" inside a blocking read
    loc,          \* the locals of the current or last gdigrab_read_packet
    pkt,          \* the caller's AVPacket as av_new_packet last left it
    ret,          \* the last return value ("PENDING" inside a call)
    emitted,      \* the packets returned: their number, the pts and the size
                  \* of the last, the pts of the one before (prev); and
                  \* whether a BitBlt of the session has failed
    opened,       \* the time and the result of gdigrab_read_header
    virtual_rect, \* the local virtual_rect of gdigrab_read_header
    closes,       \* the number of calls of gdigrab_read_close
    cursor,       \* the last call of paint_mouse_pointer (what the system
                  \* answered, whether and where it drew), the cursor errors
                  \* logged and the cursor copies still live
    opens,        \* the calls of gdigrab_read_header that run side by side
                  \* in one process, each with its own context: how far
                  \* each has got and what it resolved
    arg           \* the rectangle passed to convert_logical_rect_to_physical
                  \* when the function is run on its own

vars == <<now, url, os, gdigrab, monitors, monitorsNum, rcCombined, oob,
          handles, phase, pc, loc, pkt, ret, emitted, opened, virtual_rect,
          closes, cursor, opens, arg>>

Return(code, size) == [code |-> code, size |-> size]

\* The sessions that explore the frame clock to MaxTime
TimingSession == url = DesktopUrl /\ os = System1 /\
                 gdigrab.width = DefaultArea.width /\
                 gdigrab.offset_x = DefaultArea.offset_x /\
                 gdigrab.draw_mouse = 0 /\ gdigrab.show_region = 0

\* The sessions that explore the cursor overlay over several frames
CursorSession == url \in {DesktopUrl, Url("title", "Editor")} /\
                 os \in {System1, System2} /\
                 gdigrab.width = DefaultArea.width /\
                 gdigrab.offset_x = DefaultArea.offset_x /\
                 gdigrab.draw_mouse = 1 /\ gdigrab.show_region = 0

Horizon == IF TimingSession THEN MaxTime
           ELSE IF CursorSession THEN CursorTime ELSE ShortTime

\* What the model records of a session, before its open
NoLocals == [time_frame |-> 0, curtime |-> 0, delay |-> 0, nonblock |-> FALSE,
             pumped |-> "none", blits |-> 0]

NoPacket == [size |-> 0, pts |-> 0, data |-> <<>>]

NoEmission == [n |-> 0, pts |-> 0, prev |-> 0, size |-> 0,
               blit_failed |-> FALSE]

NoCursor == [ev |-> NoCursorEvent, calls |-> 0, drawn |-> FALSE,
             x |-> 0, y |-> 0, logs |-> 0, live |-> 0]

\* No open yet in the session numbered session; prev_logs is the number of
\* cursor errors the session before it logged.
NotOpened(session, prev_logs) ==
    [time |-> 0, ret |-> "NONE", warned |-> 0, at |-> "other",
     session |-> session, prev_logs |-> prev_logs]

Init ==
    /\ now = 0
    /\ \E u \in Urls, o \in Systems, fr \in Framerates, a \in Areas,
          sr \in {0, 1}, dm \in {0, 1} :
          /\ \/ fr = DefaultFramerate
             \/ u = DesktopUrl /\ o = System1 /\ a = DefaultArea /\ dm = 0
                /\ sr = 0
          /\ url = u
          /\ os = o
          /\ gdigrab = Context(dm, sr, fr, a)
    /\ monitors = [i \in 1..MY_MAX_MONITORS |-> ZeroMonitor]
    /\ monitorsNum = 0
    /\ rcCombined = EmptyRect
    /\ oob = FALSE
    /\ handles = NoHandles
    /\ phase = "init"
    /\ pc = "idle"
    /\ loc = NoLocals
    /\ pkt = NoPacket
    /\ ret = Return("NONE", 0)
    /\ emitted = NoEmission
    /\ opened = NotOpened(1, 0)
    /\ virtual_rect = EmptyRect
    /\ closes = 0
    /\ cursor = NoCursor
    /\ opens = <<>>
    /\ arg = EmptyRect

(***************************************************************************)
(* The actions.                                                            *)
(***************************************************************************)
\* The wall clock advances by one microsecond.
Tick ==
    /\ \/ phase = "init" /\ now < MaxOpenTime
       \/ phase = "open" /\ now < Horizon
    /\ now' = now + 1
    /\ UNCHANGED <<opens, arg>>
    /\ UNCHANGED <<url, os, gdigrab, monitors, monitorsNum, rcCombined, oob,
                   handles, phase, pc, loc, pkt, ret, emitted, opened,
                   virtual_rect, closes, cursor>>

\* avformat_open_input calls gdigrab_read_header.
Open ==
    /\ phase = "init"
    /\ \E fail \in FailSteps, junk \in JunkMonitors :
          LET r == read_header(gdigrab, url, os, fail, junk, av_gettime(now),
                               handles,
                               [monitors |-> monitors, monitorsNum |-> monitorsNum,
                                rcCombined |-> rcCombined, oob |-> oob])
          IN  /\ gdigrab' = r.gdigrab
              /\ handles' = r.handles
              /\ monitors' = r.reg.monitors
              /\ monitorsNum' = r.reg.monitorsNum
              /\ rcCombined' = r.reg.rcCombined
              /\ oob' = r.reg.oob
              /\ virtual_rect' = r.virtual_rect
              /\ phase' = IF r.crashed THEN "crashed"
                          ELSE IF r.ret = "OK" THEN "open" ELSE "failed"
              /\ ret' = Return(r.ret, 0)
              /\ opened' = [time |-> now, ret |-> r.ret, warned |-> r.warned,
                             at |-> r.at, session |-> opened.session,
                             prev_logs |-> opened.prev_logs]
    /\ UNCHANGED <<opens, arg>>
    /\ UNCHANGED <<now, url, os, pc, loc, pkt, emitted, closes, cursor>>

\* gdigrab_read_packet from av_new_packet on when av_new_packet or BitBlt
\* fails: the call returns the error with the context as it found it.
CaptureFailure(time_frame, curtime, delay, nonblock, pumped, f) ==
    LET code == IF f = "av_new_packet" THEN "ENOMEM" ELSE "EIO"
    IN  /\ pkt' = IF f = "av_new_packet" THEN pkt
                  ELSE [size |-> FileSize(gdigrab),
                        pts  |-> PacketPts(curtime, delay, time_frame),
                        data |-> <<>>]
        /\ gdigrab' = [gdigrab EXCEPT
                         !.time_frame = StoredTimeFrame(gdigrab, time_frame, code)]
        /\ ret' = Return(code, 0)
        /\ pc' = "idle"
        /\ loc' = [time_frame |-> time_frame, curtime |-> curtime,
                   delay |-> delay, nonblock |-> nonblock, pumped |-> pumped,
                   blits |-> IF f = "av_new_packet" THEN 0 ELSE 1]
        /\ emitted' = [emitted EXCEPT !.blit_failed = @ \/ f = "BitBlt"]
        /\ UNCHANGED cursor

\* gdigrab_read_packet from av_new_packet to its end when both succeed: the
\* packet, the blit, the cursor (the system answering c), the headers, the
\* stored frame clock.
CaptureFrame(time_frame, curtime, delay, nonblock, pumped, c) ==
    \E pts \in {PacketPts(curtime, delay, time_frame)},
       s \in {IF gdigrab.draw_mouse # 0
              THEN paint_mouse_pointer(gdigrab, os, c, cursor.logs, cursor.live)
              ELSE Overlay(gdigrab, cursor.logs, cursor.live)} :
        /\ pkt' = [size |-> FileSize(gdigrab), pts |-> pts,
                   data |-> PacketData(gdigrab, s)]
        /\ gdigrab' = [s.gdigrab EXCEPT
                         !.time_frame = StoredTimeFrame(gdigrab, time_frame, "OK")]
        /\ cursor' = IF gdigrab.draw_mouse # 0
                     THEN [ev |-> c, calls |-> cursor.calls + 1,
                           drawn |-> s.drawn, x |-> s.x, y |-> s.y,
                           logs |-> s.logs, live |-> s.live]
                     ELSE cursor
        /\ ret' = Return("OK", ReadReturn(gdigrab))
        /\ emitted' = [n |-> emitted.n + 1, pts |-> pts, prev |-> emitted.pts,
                       size |-> ReadReturn(gdigrab),
                       blit_failed |-> emitted.blit_failed]
        /\ pc' = "idle"
        /\ loc' = [time_frame |-> time_frame, curtime |-> curtime,
                   delay |-> delay, nonblock |-> nonblock, pumped |-> pumped,
                   blits |-> 1]

\* The rest of gdigrab_read_packet once the pacing loop has broken.
Capture(time_frame, curtime, delay, nonblock, pumped) ==
    \/ \E f \in ReadFailures \ {"none"} :
          CaptureFailure(time_frame, curtime, delay, nonblock, pumped, f)
    \/ \E c \in (IF gdigrab.draw_mouse # 0 THEN CursorEvents(gdigrab, os)
                  ELSE {NoCursorEvent}) :
          CaptureFrame(time_frame, curtime, delay, nonblock, pumped, c)

\* One pass of the for (;;) loop of gdigrab_read_packet with the local
\* time_frame, and what follows it.
PacingLoop(time_frame, nonblock, pumped) ==
    LET curtime == av_gettime(now)
        delay   == Delay(time_frame, gdigrab.time_base, curtime)
    IN  IF delay <= 0
        THEN Capture(BreakTimeFrame(time_frame, delay, gdigrab.time_base),
                     curtime, delay, nonblock, pumped)
        ELSE /\ loc' = [time_frame |-> time_frame, curtime |-> curtime,
                        delay |-> delay, nonblock |-> nonblock,
                        pumped |-> pumped, blits |-> 0]
             /\ gdigrab' = [gdigrab EXCEPT
                              !.time_frame = StoredTimeFrame(gdigrab, time_frame,
                                                             "EAGAIN")]
             /\ UNCHANGED <<pkt, emitted, cursor>>
             /\ IF nonblock
                THEN pc' = "idle" /\ ret' = Return("EAGAIN", 0)
                ELSE pc' = "av_usleep" /\ ret' = Return("PENDING", 0)

\* The caller calls gdigrab_read_packet, with or without AVFMT_FLAG_NONBLOCK:
\* the call runs to its return or to its first av_usleep.
Read ==
    /\ phase = "open"
    /\ pc = "idle"
    /\ \E nonblock \in BOOLEAN :
          PacingLoop(NextFrame(gdigrab.time_frame), nonblock,
                     PumpedWindow(gdigrab))
    /\ UNCHANGED <<opens, arg>>
    /\ UNCHANGED <<now, url, os, monitors, monitorsNum, rcCombined, oob,
                   handles, phase, opened, virtual_rect, closes>>

\* av_usleep returns and the pacing loop goes round again.
Wake ==
    /\ phase = "open"
    /\ pc = "av_usleep"
    /\ PacingLoop(loc.time_frame, loc.nonblock, loc.pumped)
    /\ UNCHANGED <<opens, arg>>
    /\ UNCHANGED <<now, url, os, monitors, monitorsNum, rcCombined, oob,
                   handles, phase, opened, virtual_rect, closes>>

\* The caller calls gdigrab_read_close: after a successful open, after a
\* failed one, or again.
Close ==
    /\ phase \in {"open", "failed", "closed"}
    /\ pc = "idle"
    /\ closes < MaxCloses
    /\ LET r == read_close(gdigrab, handles)
       IN  /\ gdigrab' = r.gdigrab
           /\ handles' = r.handles
    /\ phase' = "closed"
    /\ closes' = closes + 1
    /\ ret' = Return("OK", 0)
    /\ UNCHANGED <<opens, arg>>
    /\ UNCHANGED <<now, url, os, monitors, monitorsNum, rcCombined, oob, pc,
                   loc, pkt, emitted, opened, virtual_rect, cursor>>

\* The caller opens a new session on the context it has closed:
\* gdigrab_read_header will run again on the same priv_data, with the
\* options and the fields as the closed session left them, and on the same
\* statics.  What the model records of a session starts afresh.
Reopen ==
    /\ phase = "closed"
    /\ closes = 1
    /\ CursorSession /\ os = System1
    /\ opened.session < MaxSessions
    /\ phase' = "init"
    /\ handles' = NoHandles
    /\ oob' = FALSE
    /\ loc' = NoLocals
    /\ pkt' = NoPacket
    /\ ret' = Return("NONE", 0)
    /\ emitted' = NoEmission
    /\ opened' = NotOpened(opened.session + 1, cursor.logs)
    /\ virtual_rect' = EmptyRect
    /\ closes' = 0
    /\ cursor' = NoCursor
    /\ UNCHANGED <<opens, arg>>
    /\ UNCHANGED <<now, url, os, gdigrab, monitors, monitorsNum, rcCombined,
                   pc>>

Next == Tick \/ Open \/ Read \/ Wake \/ Close \/ Reopen

Spec == Init /\ [][Next]_vars

(***************************************************************************)
(* The frame clock and the packet timestamps.                              *)
(***************************************************************************)
\* This step returns a packet.
Emission == emitted'.n = emitted.n + 1

\* The time base as two integers: one tick lasts TickNum / TickDen us, and
\* a time_frame of f is the time f * time_base.num / time_base.den us.
TickNum == TickUnits * gdigrab.time_base.num
TickDen == gdigrab.time_base.den

\* The due time of the frame a read is about to emit, times TickDen
DueNum == (gdigrab.time_frame + TickUnits) * gdigrab.time_base.num

\* C1 as stated: the timestamps of consecutive emitted packets differ by
\* exactly one tick, or by exactly two ticks after a stall (one tick
\* skipped); the difference is never zero or negative.
C1_PtsOneTickApart ==
    emitted.n >= 2 =>
        LET d == emitted.pts - emitted.prev
        IN  /\ d > 0
            /\ d * TickDen = TickNum \/ d * TickDen = 2 * TickNum

\* C1 as amended: the frame clock values (time_frame) of consecutive emitted
\* packets differ by exactly one tick, or by exactly two ticks; the packet
\* timestamp is the wall-clock time sampled when the pacing loop breaks, so
\* consecutive timestamps differ by the wall-clock time elapsed between the
\* two emissions, which is never negative.
C1_FrameClockOneTickApart ==
    [][Emission =>
         /\ gdigrab'.time_frame - gdigrab.time_frame
                \in {TickUnits, 2 * TickUnits}
         /\ emitted'.pts = now
         /\ emitted.n >= 1 => emitted'.pts - emitted.pts >= 0]_vars

\* C1's case: after a stall, a third packet with the timestamp of the
\* second
C1_Witness ==
    /\ emitted.n >= 3
    /\ emitted.pts = emitted.prev

\* C2 as stated: time_frame only grows, and every read that returns a
\* packet advances it by exactly one tick, or by exactly two ticks when the
\* current time is more than one tick past the due time.
C2_AdvanceOneOrTwoWhenLate ==
    [][/\ opened.ret = "OK" => gdigrab'.time_frame >= gdigrab.time_frame
       /\ Emission =>
            LET late == loc'.curtime * TickDen - DueNum > TickNum
            IN  gdigrab'.time_frame - gdigrab.time_frame =
                    IF late THEN 2 * TickUnits ELSE TickUnits]_vars

\* C2 as amended: time_frame only grows and changes only when a packet is
\* returned; every such read advances it by exactly one tick or exactly two
\* ticks; by two only when the current time is more than one tick past the
\* due time, and always when it is at least one tick and one microsecond
\* past it (the delay is truncated to whole microseconds before the test).
C2_AdvanceOneOrTwo ==
    [][/\ opened.ret = "OK" => gdigrab'.time_frame >= gdigrab.time_frame
       /\ (opened.ret = "OK" /\ ~Emission) =>
              gdigrab'.time_frame = gdigrab.time_frame
       /\ Emission =>
            LET adv    == gdigrab'.time_frame - gdigrab.time_frame
                past   == loc'.curtime * TickDen - DueNum
            IN  /\ adv \in {TickUnits, 2 * TickUnits}
                /\ adv = 2 * TickUnits => past > TickNum
                /\ past >= TickNum + TickDen => adv = 2 * TickUnits]_vars

\* C2's case: a packet returned more than one tick, but less than one tick
\* and one microsecond, past its due time, without a skipped tick
C2_Witness ==
    /\ emitted.n >= 1
    /\ ret.code = "OK"
    /\ gdigrab.time_frame = loc.time_frame
    /\ LET past == loc.curtime * TickDen - loc.time_frame * gdigrab.time_base.num
       IN  past > TickNum /\ past < TickNum + TickDen
    /\ Overshot(loc.delay, gdigrab.time_base) = FALSE

\* A step of gdigrab_read_packet from its call
ReadStep == phase = "open" /\ pc = "idle" /\ now' = now /\ closes' = closes

C4_FirstReadAtOpenTime ==
    [][(ReadStep /\ emitted.n = 0 /\ now = opened.time
        /\ ret'.code \notin {"ENOMEM", "EIO"}) =>
         /\ ret'.code = "OK"
         /\ emitted'.pts = opened.time
         /\ ret'.size = gdigrab.header_size + gdigrab.frame_size]_vars

\* C4 as amended: the first frame is due one tick after the open, so the
\* first packet's pts is later than the time of the open plus one tick
\* minus the two truncations (less than 1 us + 1/framerate), and a read at
\* the time of the open returns EAGAIN (non-blocking) or sleeps (blocking)
\* when a tick is two microseconds or more; the packet's size is
\* header_size + frame_size.
C4_FirstFrameOneTickAfterOpen ==
    [][/\ (emitted.n = 0 /\ Emission) =>
            /\ (emitted'.pts + 1) * TickDen + gdigrab.time_base.num
                   > opened.time * TickDen + TickNum
            /\ ret'.size = gdigrab.header_size + gdigrab.frame_size
       /\ (ReadStep /\ emitted.n = 0 /\ now = opened.time
           /\ TickNum >= 2 * TickDen) =>
            /\ ~Emission
            /\ ret'.code \in {"EAGAIN", "PENDING"}]_vars

\* C4's case: the first packet has been returned by a blocking read that
\* was called at the time of the open
C4_Witness ==
    /\ emitted.n = 1
    /\ ~loc.nonblock
    /\ emitted.pts > opened.time
    /\ emitted.size = gdigrab.header_size + gdigrab.frame_size

\* C5 as stated: a blocking read never returns EAGAIN, and the pts of a
\* returned packet is at or after the due time of its frame.
C5_PtsAtOrAfterDue ==
    [][/\ ret'.code = "EAGAIN" => loc'.nonblock
       /\ Emission => emitted'.pts * TickDen >= DueNum]_vars

\* C5 as amended: a blocking read never returns EAGAIN, and the pts of a
\* returned packet is later than the due time of its frame minus one
\* microsecond: the delay is truncated toward zero before it is tested, so
\* a frame due at a fraction of a microsecond is emitted up to one
\* microsecond early.
C5_PtsAfterDueLessOne ==
    [][/\ ret'.code = "EAGAIN" => loc'.nonblock
       /\ Emission => (emitted'.pts + 1) * TickDen > DueNum]_vars

\* C5's case: a blocking read that slept has returned a packet whose pts is
\* before the exact due time
C5_Witness ==
    /\ emitted.n >= 1
    /\ ret.code = "OK"
    /\ ~loc.nonblock
    /\ gdigrab.time_frame = loc.time_frame
    /\ emitted.pts * TickDen < loc.time_frame * gdigrab.time_base.num

\* C6: the pts of each emitted packet is greater than or equal to the pts
\* of the packet emitted before it.
C6_PtsNonDecreasing == emitted.n >= 2 => emitted.pts >= emitted.prev

\* C6's case: a third packet later than the second
C6_Witness == emitted.n >= 3 /\ emitted.pts > emitted.prev

(***************************************************************************)
(* The capture area and the packet size.                                   *)
(***************************************************************************)
\* The rectangle a request asks for, given the target's virtual bounds
Requested ==
    IF gdigrab.width = 0 \/ gdigrab.height = 0 THEN virtual_rect
    ELSE Rect(gdigrab.offset_x, gdigrab.offset_y,
              gdigrab.offset_x + gdigrab.width,
              gdigrab.offset_y + gdigrab.height)

Inside(r, bounds) ==
    /\ bounds.left <= r.left /\ r.right <= bounds.right
    /\ bounds.top <= r.top /\ r.bottom <= bounds.bottom

\* C7: after a successful open the clip rectangle lies inside the target's
\* physical virtual bounds, its width and height are positive and the bit
\* depth is a multiple of 8; a request that violates one of these makes the
\* open fail before the destination DC and the bitmap are created.
C7_ClipInsideVirtualBounds ==
    /\ phase = "open" =>
          /\ Inside(gdigrab.clip_rect, virtual_rect)
          /\ gdigrab.clip_rect.right - gdigrab.clip_rect.left > 0
          /\ gdigrab.clip_rect.bottom - gdigrab.clip_rect.top > 0
          /\ gdigrab.bmi.biBitCount % 8 = 0
          /\ gdigrab.bmi.biBitCount = os.bpp
    /\ (/\ phase \in {"open", "failed", "closed"}
        /\ handles["source_hdc"].acq = 1
        /\ \/ ~Inside(Requested, virtual_rect)
           \/ Requested.right - Requested.left <= 0
           \/ Requested.bottom - Requested.top <= 0
           \/ os.bpp % 8 # 0) =>
          /\ opened.ret = "EIO"
          /\ handles["dest_hdc"].acq = 0
          /\ handles["hbmp"].acq = 0

\* C7's case: an open has failed for an area that reaches beyond the right
\* edge of the virtual bounds, with the source DC acquired
C7_Witness ==
    /\ phase = "failed"
    /\ handles["source_hdc"].acq = 1
    /\ gdigrab.width > 0
    /\ Requested.right > virtual_rect.right
    /\ Requested.left >= virtual_rect.left

\* C8: header_size is 14 + 40 + (bit depth <= 8 ? 4 * 2^bitdepth : 0);
\* header_size and frame_size do not change after the open; every read
\* that returns a packet allocates and reports header_size + frame_size
\* bytes.
C8_PacketSize ==
    [][/\ opened'.ret = "OK" =>
            gdigrab'.header_size =
                14 + 40 + (IF os'.bpp <= 8 THEN 4 * (2 ^ os'.bpp) ELSE 0)
       /\ opened.ret = "OK" =>
            /\ gdigrab'.header_size = gdigrab.header_size
            /\ gdigrab'.frame_size = gdigrab.frame_size
       /\ Emission =>
            /\ ret'.code = "OK"
            /\ ret'.size = gdigrab.header_size + gdigrab.frame_size
            /\ pkt'.size = gdigrab.header_size + gdigrab.frame_size]_vars

\* C8's case: a packet returned at 8 bits per pixel, palette included
C8_Witness ==
    /\ emitted.n >= 1
    /\ os.bpp = 8
    /\ gdigrab.header_size = 1078
    /\ emitted.size = 1078 + gdigrab.frame_size

(***************************************************************************)
(* The lifetime of the handles.                                            *)
(***************************************************************************)
\* C9: a close that follows a close, or a failed open, performs no
\* operation on a handle that has already been released or was never
\* acquired, and returns success.
C9_CloseIdempotent ==
    [][(closes' = closes + 1 /\ phase \in {"failed", "closed"}) =>
         /\ ret'.code = "OK"
         /\ \A k \in Kinds :
               handles'[k].rel > handles[k].rel =>
                   handles[k].acq = 1 /\ handles[k].rel = 0]_vars

\* C10: after any open, any reads and one close, each handle acquired has
\* been released exactly once.
C10_ReleasedExactlyOnce ==
    closes = 1 => \A k \in Kinds : handles[k].rel = handles[k].acq

\* The first close of a session whose open succeeded has returned
ClosedOnce == closes = 1 /\ opened.ret = "OK"

\* C11 as stated: the open acquires source DC, destination DC, bitmap,
\* region window in this order, and the close releases them in the reverse
\* order: region window, bitmap, destination DC, source DC.
C11_ReverseOrderRelease ==
    ClosedOnce =>
        /\ handles["source_hdc"].acqAt < handles["dest_hdc"].acqAt
        /\ handles["dest_hdc"].acqAt < handles["hbmp"].acqAt
        /\ handles["region_hwnd"].acq > 0 =>
               /\ handles["hbmp"].acqAt < handles["region_hwnd"].acqAt
               /\ handles["region_hwnd"].relAt < handles["hbmp"].relAt
        /\ handles["hbmp"].relAt < handles["dest_hdc"].relAt
        /\ handles["dest_hdc"].relLast < handles["source_hdc"].relLast

\* C11 as amended: the open acquires source DC, destination DC, bitmap,
\* region window in this order; the close destroys the region window first,
\* then calls ReleaseDC on the source DC, deletes the destination DC, then
\* the bitmap that was selected into it, and last calls DeleteDC on the
\* source DC: the order is not the reverse of the acquisitions.
C11_CloseOrder ==
    ClosedOnce =>
        /\ handles["source_hdc"].acqAt < handles["dest_hdc"].acqAt
        /\ handles["dest_hdc"].acqAt < handles["hbmp"].acqAt
        /\ handles["region_hwnd"].acq > 0 =>
               /\ handles["hbmp"].acqAt < handles["region_hwnd"].acqAt
               /\ handles["region_hwnd"].relAt < handles["source_hdc"].relAt
               /\ handles["region_hwnd"].relAt > handles["region_hwnd"].acqAt
        /\ handles["hbmp"].acqAt < handles["source_hdc"].relAt
        /\ handles["source_hdc"].relAt < handles["dest_hdc"].relAt
        /\ handles["dest_hdc"].relAt < handles["hbmp"].relAt
        /\ handles["hbmp"].relAt < handles["source_hdc"].relLast

\* C11's case: a session with a region window has been closed
C11_Witness ==
    /\ ClosedOnce
    /\ handles["region_hwnd"].rel = 1
    /\ handles["hbmp"].rel = 1
    /\ handles["dest_hdc"].relAt = handles["hbmp"].relAt - 1

(***************************************************************************)
(* The region window.                                                      *)
(***************************************************************************)
\* The target names a window that exists
WindowTarget == url.scheme = "title" /\ url.name \in os.titles

\* C12: a region window exists only in a desktop session with show_region
\* on; an open with a window target and show_region on does not fail in the
\* region window's creation, clears show_region, logs one warning and
\* creates no region window, and no read of that session pumps a queue.
C12_RegionWindowOnlyForDesktop ==
    [][/\ handles'["region_hwnd"].acq > 0 =>
            url' = DesktopUrl /\ gdigrab'.show_region # 0
       /\ (phase = "init" /\ phase' # "init" /\ WindowTarget
           /\ gdigrab.show_region # 0) =>
            /\ gdigrab'.show_region = 0
            /\ opened'.warned = 1
            /\ opened'.at # "gdigrab_region_wnd_init"
            /\ handles'["region_hwnd"].acq = 0
       /\ (phase = "init" /\ phase' # "init"
           /\ ~(WindowTarget /\ gdigrab.show_region # 0)) =>
            opened'.warned = 0
       /\ WindowTarget =>
            /\ handles'["region_hwnd"].acq = 0
            /\ loc'.pumped = "none"]_vars

\* C12's case: a window session opened with show_region on has returned a
\* packet
C12_Witness ==
    /\ WindowTarget
    /\ opened.warned = 1
    /\ opened.ret = "OK"
    /\ gdigrab.show_region = 0
    /\ emitted.n >= 1
    /\ loc.pumped = "none"

(***************************************************************************)
(* A failed blit.                                                          *)
(***************************************************************************)
\* A call of gdigrab_read_packet has returned EIO: its BitBlt failed
BlitFailure == phase = "open" /\ phase' = "open" /\ ret'.code = "EIO"

\* C13 as stated: a read whose blit fails returns EIO after exactly one
\* BitBlt, delivers no frame and does not advance the stored frame clock,
\* and no later read of the session returns a packet.
C13_BlitFailureTerminates ==
    [][/\ BlitFailure =>
            /\ loc'.blits = 1
            /\ emitted'.n = emitted.n
            /\ gdigrab'.time_frame = gdigrab.time_frame
       /\ emitted.blit_failed => ~Emission]_vars

\* C13 as amended: a read whose blit fails returns EIO after exactly one
\* BitBlt, delivers no frame (the packet it allocated is left with the
\* caller, its data unwritten) and does not change the context, the stored
\* frame clock included; the session is not terminated: the context is
\* as if the read had not been made, and a later read returns a packet.
C13_BlitFailureReturnsEIO ==
    [][BlitFailure =>
         /\ loc'.blits = 1
         /\ emitted'.n = emitted.n
         /\ emitted'.blit_failed
         /\ gdigrab' = gdigrab
         /\ handles' = handles
         /\ cursor' = cursor
         /\ pkt'.data = <<>>
         /\ pkt'.size = gdigrab.header_size + gdigrab.frame_size
         /\ pc' = "idle"]_vars

\* C13's case: a packet has been returned after a blit of the session
\* failed
C13_Witness ==
    /\ emitted.blit_failed
    /\ emitted.n >= 1
    /\ ret.code = "OK"
    /\ phase = "open"

(***************************************************************************)
(* The capture area in physical pixels.                                    *)
(***************************************************************************)
\* C14: after a successful open with a width and a height requested the
\* clip rectangle is {offset_x, offset_y, offset_x + width, offset_y +
\* height}, whatever the monitors' scale factors; with the width or the
\* height unset it is the converted virtual bounds, whatever the offsets.
C14_ExplicitAreaIsRaw ==
    phase = "open" =>
        IF gdigrab.width # 0 /\ gdigrab.height # 0
        THEN gdigrab.clip_rect =
                 Rect(gdigrab.offset_x, gdigrab.offset_y,
                      gdigrab.offset_x + gdigrab.width,
                      gdigrab.offset_y + gdigrab.height)
        ELSE gdigrab.clip_rect = virtual_rect

\* C14's case: an explicit area has been opened on a desktop whose monitor
\* is scaled to 200 %
C14_Witness ==
    /\ phase = "open"
    /\ url = DesktopUrl
    /\ os = System2
    /\ virtual_rect = Rect(0, 0, 800, 600)
    /\ gdigrab.width = 100 /\ gdigrab.offset_x = 10
    /\ gdigrab.clip_rect = Rect(10, 20, 110, 70)

(***************************************************************************)
(* The cursor overlay.                                                     *)
(***************************************************************************)
\* The last packet returned carries a cursor
CursorInPacket == pkt.data # <<>> /\ pkt.data.cursor # <<>>

\* C15: the cursor is drawn onto the back buffer only in a read where the
\* pointer is in the showing state, and never when draw_mouse is 0.
C15_NoCursorUnlessShowing ==
    /\ cursor.drawn => cursor.ev.showing /\ gdigrab.draw_mouse # 0
    /\ CursorInPacket => cursor.drawn
    /\ gdigrab.draw_mouse = 0 => cursor.calls = 0

\* C15's case: a window session has returned its second packet while the
\* pointer was hidden
C15_Witness ==
    /\ WindowTarget
    /\ cursor.calls >= 2
    /\ cursor.ev.info_ok /\ ~cursor.ev.showing
    /\ ~cursor.drawn
    /\ ret.code = "OK"
    /\ ~CursorInPacket

\* A read has called paint_mouse_pointer
CursorCall == cursor'.calls = cursor.calls + 1

\* One of the calls of the overlay failed when the system answered c:
\* GetCursorInfo, or with the pointer showing GetIconInfo, GetWindowRect
\* (window target), or DrawIcon (position inside the frame)
CursorFailure(g, o, c) ==
    \/ ~c.info_ok
    \/ /\ c.showing
       /\ \/ ~c.icon_ok
          \/ g.hwnd # NULL /\ ~c.rect_ok
          \/ ~c.draw_ok /\ CursorInFrame(CursorPos(g, o, c), g.clip_rect)

\* C16: over the reads of a session the failures of the cursor overlay are
\* logged once at most, at the first failure, and the read still returns a
\* packet of the full size; an open resets the suppression, so that the
\* first failure of the next session is logged again.
C16_CursorErrorLoggedOnce ==
    [][/\ cursor'.logs <= 1
       /\ CursorCall =>
            /\ ret'.code = "OK"
            /\ ret'.size = gdigrab.header_size + gdigrab.frame_size
            /\ pkt'.size = gdigrab.header_size + gdigrab.frame_size
            /\ cursor'.logs =
                  IF CursorFailure(gdigrab, os, cursor'.ev) /\ cursor.logs = 0
                  THEN 1 ELSE cursor.logs
       /\ (phase = "init" /\ phase' = "open") =>
            gdigrab'.cursor_error_printed = 0]_vars

\* C16's case: the second session on a context has logged its first
\* cursor failure, after the first session had logged its own
C16_Witness ==
    /\ opened.session = 2
    /\ opened.prev_logs = 1
    /\ cursor.calls = 1
    /\ CursorFailure(gdigrab, os, cursor.ev)
    /\ cursor.logs = 1
    /\ ret.code = "OK"

(***************************************************************************)
(* The monitor table.                                                      *)
(***************************************************************************)
\* The open has enumerated the monitors and resolved the target's bounds
Enumerated == phase # "init" /\ handles["source_hdc"].acq > 0

\* The indices of the monitors[] entries that the open read to scale the
\* target's bounds (they do not depend on what an outside index reads)
OpenReads ==
    VirtualRect(IF url.scheme = "title" THEN "wnd" ELSE NULL, os,
                [monitors |-> monitors, monitorsNum |-> monitorsNum],
                ZeroMonitor).inds

\* C17: every read of a monitor entry during open (the corner scaling for
\* the desktop, the window-rectangle scaling for a window target) uses an
\* index i with 0 <= i < monitorsNum, also when the lookups find nothing.
C17_MonitorReadsInTable ==
    Enumerated => \A k \in 1..4 : 0 <= OpenReads[k] /\ OpenReads[k] < monitorsNum

(***************************************************************************)
(* Two opens in one process.  gdigrab_read_header keeps its monitor table  *)
(* in the statics monitors, monitorsNum and rcCombined; each call has its  *)
(* own context.  A call is followed through the points where it touches    *)
(* the statics: the reset (lines 435-436), each callback of                *)
(* EnumDisplayMonitors (lines 240-261), and the lookups that scale the     *)
(* target's bounds (lines 449-478), after which it runs to its return on   *)
(* its own data.  Each of these steps is taken as a whole; two threads     *)
(* can interleave more finely than that.                                   *)
(***************************************************************************)
\* Five monitors side by side, one more than the table holds
SystemFive ==
    System(<<Monitor(Rect(0, 0, 200, 300), Res(200, 300), Res(200, 300)),
             Monitor(Rect(200, 0, 400, 300), Res(200, 300), Res(200, 300)),
             Monitor(Rect(400, 0, 600, 300), Res(200, 300), Res(200, 300)),
             Monitor(Rect(600, 0, 800, 300), Res(200, 300), Res(200, 300)),
             Monitor(Rect(800, 0, 1000, 300), Res(200, 300), Res(200, 300))>>,
           VScreen(0, 0, 1000, 300),
           Rect(100, 100, 300, 200), Rect(0, 0, 200, 100), 32,
           Caps(200, 300, 200, 300))

RegistrySystems == {System1, System2, System3, SystemFive}

RegistryUrls == {DesktopUrl, Url("title", "Editor")}

RegistryAreas == {DefaultArea, Area(0, 0, 0, 0)}

\* A call of gdigrab_read_header that has not reached the reset yet
PendingOpen(u, a) ==
    [pc |-> "start", i |-> 1, url |-> u, area |-> a,
     gdigrab |-> Context(0, 0, DefaultFramerate, a),
     ret |-> "NONE", virtual_rect |-> EmptyRect, crashed |-> FALSE]

Threads == {1, 2}

Statics == [monitors |-> monitors, monitorsNum |-> monitorsNum,
            rcCombined |-> rcCombined, oob |-> oob]

InitRegistry ==
    /\ now = 0
    /\ url = DesktopUrl
    /\ os \in RegistrySystems
    /\ gdigrab = Context(0, 0, DefaultFramerate, DefaultArea)
    /\ monitors = [i \in 1..MY_MAX_MONITORS |-> ZeroMonitor]
    /\ monitorsNum = 0
    /\ rcCombined = EmptyRect
    /\ oob = FALSE
    /\ handles = NoHandles
    /\ phase = "init"
    /\ pc = "idle"
    /\ loc = NoLocals
    /\ pkt = NoPacket
    /\ ret = Return("NONE", 0)
    /\ emitted = NoEmission
    /\ opened = NotOpened(1, 0)
    /\ virtual_rect = EmptyRect
    /\ closes = 0
    /\ cursor = NoCursor
    /\ arg = EmptyRect
    /\ \E u1 \in RegistryUrls, u2 \in RegistryUrls,
          a1 \in RegistryAreas, a2 \in RegistryAreas :
          opens = <<PendingOpen(u1, a1), PendingOpen(u2, a2)>>

\* What the two-opens steps leave alone
RegistryFrame ==
    UNCHANGED <<now, url, os, gdigrab, handles, phase, pc, loc, pkt, ret,
                emitted, opened, virtual_rect, closes, cursor, arg>>

\* gdigrab_read_header of thread s up to "monitorsNum = 0"
OpenReset(s) ==
    /\ opens[s].pc = "start"
    /\ rcCombined' = EmptyRect
    /\ monitorsNum' = 0
    /\ opens' = [opens EXCEPT ![s].pc = "EnumDisplayMonitors"]
    /\ UNCHANGED <<monitors, oob>>
    /\ RegistryFrame

\* EnumDisplayMonitors of thread s calls monitor_enum for the next monitor
OpenEnum(s) ==
    /\ opens[s].pc = "EnumDisplayMonitors"
    /\ opens[s].i <= Len(os.attached)
    /\ LET reg == monitor_enum(Statics, <<os.attached[opens[s].i]>>)
       IN  /\ monitors' = reg.monitors
           /\ monitorsNum' = reg.monitorsNum
           /\ rcCombined' = reg.rcCombined
           /\ oob' = reg.oob
    /\ opens' = [opens EXCEPT ![s].i = @ + 1]
    /\ RegistryFrame

\* gdigrab_read_header of thread s from the return of EnumDisplayMonitors
\* to its own return
OpenResolve(s) ==
    /\ opens[s].pc = "EnumDisplayMonitors"
    /\ opens[s].i > Len(os.attached)
    /\ \E junk \in JunkMonitors :
          LET hwnd == IF opens[s].url.scheme = "title" THEN "wnd" ELSE NULL
              r == header_area(opens[s].gdigrab, hwnd, os.bpp, "none",
                               av_gettime(now),
                               Acquire(NoHandles, "source_hdc"), Statics,
                               VirtualRect(hwnd, os, Statics, junk))
          IN  /\ opens' = [opens EXCEPT ![s].pc = "done",
                                        ![s].gdigrab = r.gdigrab,
                                        ![s].ret = r.ret,
                                        ![s].virtual_rect = r.virtual_rect,
                                        ![s].crashed = r.crashed]
              /\ oob' = r.reg.oob
    /\ UNCHANGED <<monitors, monitorsNum, rcCombined>>
    /\ RegistryFrame

NextRegistry ==
    \E s \in Threads : OpenReset(s) \/ OpenEnum(s) \/ OpenResolve(s)

SpecRegistry == InitRegistry /\ [][NextRegistry]_vars

\* What the open of thread s returns when it is the only one in the process
OpenedAlone(s) ==
    read_header(Context(0, 0, DefaultFramerate, opens[s].area), opens[s].url,
                os, "none", ZeroMonitor, av_gettime(now), NoHandles,
                [monitors |-> [i \in 1..MY_MAX_MONITORS |-> ZeroMonitor],
                 monitorsNum |-> 0, rcCombined |-> EmptyRect, oob |-> FALSE])

\* Thread s is between its reset of the table and its last read of it
ReadingTable(s) == opens[s].pc = "EnumDisplayMonitors"

\* C18: the monitor registry is session-local: of two opens interleaved in
\* one process, each resolves the same virtual bounds and clip rectangle
\* as it would alone, and a step of one open never resets or extends the
\* monitor table that the other open is reading.
C18_RegistrySessionLocal ==
    [][\A s \in Threads :
          /\ (opens[s].pc # "done" /\ opens'[s].pc = "done") =>
                /\ opens'[s].ret = OpenedAlone(s).ret
                /\ opens'[s].virtual_rect = OpenedAlone(s).virtual_rect
                /\ opens'[s].gdigrab.clip_rect = OpenedAlone(s).gdigrab.clip_rect
          /\ (ReadingTable(s) /\ opens'[s] = opens[s]) =>
                /\ monitorsNum' = monitorsNum
                /\ monitors' = monitors]_vars

(***************************************************************************)
(* convert_logical_rect_to_physical on its own: the monitor table is the   *)
(* one an enumeration leaves, the rectangle is drawn from a grid of        *)
(* coordinates on, next to and between the monitors' edges.                *)
(***************************************************************************)
\* 200 %, at the origin
ConvertMonitorsDouble ==
    <<Monitor(Rect(0, 0, 400, 300), Res(400, 300), Res(800, 600))>>

\* 100 % left of the origin, then 300 % by 200 %, then 150 %
ConvertMonitorsMixed ==
    <<Monitor(Rect(-200, 0, 0, 300), Res(200, 300), Res(200, 300)),
      Monitor(Rect(0, 0, 200, 300), Res(200, 300), Res(600, 600)),
      Monitor(Rect(200, 0, 400, 300), Res(200, 300), Res(300, 450))>>

ConvertTables == {ConvertMonitorsDouble, ConvertMonitorsMixed,
                  System3.attached, System4.attached}

ConvertXs == {-200, -101, -1, 0, 1, 7, 199, 200, 201, 333, 399, 400, 401}

ConvertYs == {-1, 0, 1, 149, 299, 300}

ConvertRects ==
    {Rect(l, t, r, b) : l \in ConvertXs, t \in ConvertYs,
                        r \in ConvertXs, b \in ConvertYs}

InitConvert ==
    /\ now = 0
    /\ url = DesktopUrl
    /\ os = System1
    /\ gdigrab = Context(0, 0, DefaultFramerate, DefaultArea)
    /\ \E attached \in ConvertTables :
          LET reg == EnumDisplayMonitors(
                         [monitors |-> [i \in 1..MY_MAX_MONITORS |-> ZeroMonitor],
                          monitorsNum |-> 0, rcCombined |-> EmptyRect,
                          oob |-> FALSE], attached)
          IN  /\ monitors = reg.monitors
              /\ monitorsNum = reg.monitorsNum
              /\ rcCombined = reg.rcCombined
              /\ oob = reg.oob
    /\ handles = NoHandles
    /\ phase = "init"
    /\ pc = "idle"
    /\ loc = NoLocals
    /\ pkt = NoPacket
    /\ ret = Return("NONE", 0)
    /\ emitted = NoEmission
    /\ opened = NotOpened(1, 0)
    /\ \E r \in ConvertRects :
          /\ r.left < r.right /\ r.top < r.bottom
          /\ arg = r
          /\ virtual_rect = r
    /\ closes = 0
    /\ cursor = NoCursor
    /\ opens = <<>>

\* convert_logical_rect_to_physical(&virtual_rect)
Convert ==
    /\ phase = "init"
    /\ \E junk \in JunkMonitors :
          LET conv == convert_logical_rect_to_physical(virtual_rect, monitors,
                                                       monitorsNum, junk)
          IN  /\ virtual_rect' = conv.rect
              /\ oob' = (oob \/ UsesOutside(conv))
              /\ phase' = IF conv.divzero THEN "crashed" ELSE "converted"
    /\ UNCHANGED <<now, url, os, gdigrab, monitors, monitorsNum, rcCombined,
                   handles, pc, loc, pkt, ret, emitted, opened, closes,
                   cursor, opens, arg>>

NextConvert == Convert

SpecConvert == InitConvert /\ [][NextConvert]_vars

\* Monitor m holds the rectangle r and scales by a whole number on each axis
IntegerScaleMonitor(m, r) ==
    /\ Inside(r, m.rect)
    /\ m.logical.x > 0 /\ m.physical.x > 0 /\ m.physical.x % m.logical.x = 0
    /\ m.logical.y > 0 /\ m.physical.y > 0 /\ m.physical.y % m.logical.y = 0

Abs(n) == IF n < 0 THEN -n ELSE n

\* Dividing the physical rectangle p by the scale factor of m gives r back
\* within one pixel on every coordinate
BackWithinOne(p, m, r) ==
    LET kx == m.physical.x \div m.logical.x
        ky == m.physical.y \div m.logical.y
    IN  /\ Abs(CDiv(p.left, kx) - r.left) <= 1
        /\ Abs(CDiv(p.top, ky) - r.top) <= 1
        /\ Abs(CDiv(p.right, kx) - r.right) <= 1
        /\ Abs(CDiv(p.bottom, ky) - r.bottom) <= 1

\* C19: a rectangle lying inside one monitor whose scale factor is a whole
\* number on each axis, converted to physical coordinates and divided by
\* that monitor's scale factor, comes back within 1 pixel on every
\* coordinate.
C19_RoundTripWithinOne ==
    phase = "converted" =>
        \A i \in 1..Min({monitorsNum, MY_MAX_MONITORS}) :
            IntegerScaleMonitor(monitors[i], arg) =>
                BackWithinOne(virtual_rect, monitors[i], arg)

\* C19's case: a rectangle inside the 300 % by 200 % monitor has been
\* converted, and its physical coordinates differ from the logical ones
C19_Witness ==
    /\ phase = "converted"
    /\ monitorsNum = 3
    /\ IntegerScaleMonitor(monitors[2], arg)
    /\ arg = Rect(1, 1, 199, 149)
    /\ virtual_rect = Rect(3, 2, 597, 298)

(***************************************************************************)
(* Where the cursor is drawn.                                              *)
(***************************************************************************)
\* C20: the cursor is drawn only when its computed top-left position falls
\* inside the back buffer, 0 <= x < clip width and 0 <= y < clip height; a
\* position equal to the clip width or the clip height is not drawn.
C20_CursorDrawnInsideBuffer ==
    cursor.drawn =>
        /\ 0 <= cursor.x
        /\ cursor.x < gdigrab.clip_rect.right - gdigrab.clip_rect.left
        /\ 0 <= cursor.y
        /\ cursor.y < gdigrab.clip_rect.bottom - gdigrab.clip_rect.top

(***************************************************************************)
(* The headers of a packet.                                                *)
(***************************************************************************)
\* C21: in every packet returned the file header's size field is
\* header_size + frame_size and its offset to the pixels is header_size;
\* the bitmap-info header has the clip rectangle's width, minus its height,
\* one plane, the bit depth of the source and no compression, and is the
\* same in every packet of the session.
C21_PacketHeaders ==
    [][/\ Emission =>
            /\ pkt'.data.bfSize = gdigrab.header_size + gdigrab.frame_size
            /\ pkt'.data.bfOffBits = gdigrab.header_size
            /\ pkt'.data.bmiHeader.biWidth =
                  gdigrab.clip_rect.right - gdigrab.clip_rect.left
            /\ pkt'.data.bmiHeader.biHeight =
                  -(gdigrab.clip_rect.bottom - gdigrab.clip_rect.top)
            /\ pkt'.data.bmiHeader.biPlanes = 1
            /\ pkt'.data.bmiHeader.biBitCount = os.bpp
            /\ pkt'.data.bmiHeader.biCompression = "BI_RGB"
            /\ pkt'.data.bmiHeader = gdigrab.bmi
       /\ opened.ret = "OK" =>
            /\ gdigrab'.bmi = gdigrab.bmi
            /\ gdigrab'.clip_rect = gdigrab.clip_rect]_vars

\* C21's case: the third packet of a session on the 100 by 50 area at 32
\* bits per pixel
C21_Witness ==
    /\ emitted.n = 3
    /\ ret.code = "OK"
    /\ pkt.data.bfSize = 54 + 20000
    /\ pkt.data.bfOffBits = 54
    /\ pkt.data.bmiHeader.biWidth = 100
    /\ pkt.data.bmiHeader.biHeight = -50
    /\ pkt.data.bmiHeader.biBitCount = 32

(***************************************************************************)
(* Progress of the reads.  The clock of the model stops at Horizon, so a   *)
(* read is started only when its frame is due by then; the clock advances  *)
(* while it can, av_usleep returns, and the caller keeps calling.          *)
(***************************************************************************)
InitLive == Init /\ TimingSession

\* gdigrab_read_packet called for a frame that is due within the horizon
ReadLive ==
    /\ phase = "open"
    /\ Delay(NextFrame(gdigrab.time_frame), gdigrab.time_base,
             av_gettime(Horizon)) <= 0
    /\ Read

NextLive == Tick \/ Open \/ ReadLive \/ Wake \/ Close

SpecLive ==
    /\ InitLive
    /\ [][NextLive]_vars
    /\ WF_vars(Tick)
    /\ WF_vars(Wake)
    /\ WF_vars(ReadLive)

\* A read is inside the call, in av_usleep
Waiting == pc = "av_usleep"

\* The last call returned AVERROR(EAGAIN) and the session is still open
TryAgain == phase = "open" /\ pc = "idle" /\ ret.code = "EAGAIN"

\* The last call returned a packet or an error other than EAGAIN
Returned == pc = "idle" /\ ret.code \in {"OK", "ENOMEM", "EIO"}

C23_TableHoldsEveryMonitor ==
    [][/\ monitorsNum' <= MY_MAX_MONITORS
       /\ monitorsNum' = monitorsNum + 1 =>
             /\ monitorsNum < MY_MAX_MONITORS
             /\ oob' = oob]_vars

(***************************************************************************)
(* The sign of a converted rectangle.                                      *)
(***************************************************************************)
\* Both corners of r (the bottom-right one taken at right - 1, bottom - 1)
\* lie on monitors of the table
CornersOnMonitors(r) ==
    /\ get_monitor_id_by_logical_point(monitors, monitorsNum,
                                       r.left, r.top) >= 0
    /\ get_monitor_id_by_logical_point(monitors, monitorsNum,
                                       r.right - 1, r.bottom - 1) >= 0

\* C24: convert_logical_rect_to_physical maps every logical rectangle of
\* positive width and height whose corners lie on enumerated monitors to a
\* physical rectangle with left < right and top < bottom, also when the
\* corners lie on monitors with different scale factors.
C24_ConvertKeepsPositive ==
    (/\ phase = "converted"
     /\ arg.left < arg.right /\ arg.top < arg.bottom
     /\ CornersOnMonitors(arg)) =>
        /\ virtual_rect.left < virtual_rect.right
        /\ virtual_rect.top < virtual_rect.bottom

(***************************************************************************)
(* What the cursor overlay leaves behind.                                  *)
(***************************************************************************)
\* C25: every call of the cursor overlay releases what it acquired before
\* it returns, on every path (pointer not showing, errors): the number of
\* live cursor copies is zero after each read.
C25_NoLiveCursorCopy == cursor.live = 0

====
